---- MODULE Spec2Model ----
(***************************************************************************)
(* A model of rickb777/httprouter (v3): the Router's registration          *)
(* (Router.Handle), its method negotiation (Router.allowed) and its        *)
(* request dispatch (Router.serveHTTP, Router.ServeHTTP), its adapters     *)
(* (SubRouter, ServeFiles, StripLeadingSegments) and its params pool under *)
(* concurrent requests.                                                    *)
(*                                                                         *)
(* Paths are sequences of one-character strings.  The radix tree itself    *)
(* (node.addRoute, node.getValue, node.findCaseInsensitivePath, CleanPath, *)
(* countParams) is not part of the sources at hand; a tree is modelled by  *)
(* the set of routes it holds and its lookups by what the specification    *)
(* says they return.                                                       *)
(***************************************************************************)
EXTENDS Integers, Sequences, FiniteSets, TLC

VARIABLES
    trees,                  \* Router.trees: method -> set of routes of that root
    globalAllowed,          \* Router.globalAllowed (cached Allow value)
    maxParams,              \* Router.maxParams
    poolNew,                \* Router.paramsPool.New is set
    SaveMatchedRoutePath,   \* the Router's public fields ...
    RedirectTrailingSlash,
    RedirectFixedPath,
    HandleMethodNotAllowed,
    HandleOPTIONS,
    GlobalOPTIONS,          \* ... a handler field is TRUE when it is non-nil
    NotFound,
    MethodNotAllowed,
    PanicHandler,
    last,                   \* what the last call did (observation of its effects)
    buffers,                \* the Params buffers paramsPool.New has made: id -> cap
    pool,                   \* Router.paramsPool: id -> how often the buffer is in it
    flights                 \* the requests in flight, each at its point in the code

vars == <<trees, globalAllowed, maxParams, poolNew, SaveMatchedRoutePath,
          RedirectTrailingSlash, RedirectFixedPath, HandleMethodNotAllowed,
          HandleOPTIONS, GlobalOPTIONS, NotFound, MethodNotAllowed,
          PanicHandler, last, buffers, pool, flights>>

fields == <<RedirectTrailingSlash, RedirectFixedPath, HandleMethodNotAllowed,
            HandleOPTIONS, GlobalOPTIONS, NotFound, MethodNotAllowed,
            PanicHandler>>

router == <<trees, globalAllowed, maxParams, poolNew>>

\* the params pool's content and the requests under way
serving == <<buffers, pool, flights>>

-----------------------------------------------------------------------------
(* Bounds and input sets                                                   *)

\* registrations that reach the tree (successful or failing in addRoute)
MaxRoutes == 2
\* fields of the Router the program has set to another value than New() does
MaxFields == 2

MethodGet == "GET"
MethodHead == "HEAD"
MethodOptions == "OPTIONS"
MethodPost == "POST"
MethodConnect == "CONNECT"
MethodPut == "PUT"
MethodDelete == "DELETE"
MethodPatch == "PATCH"

\* the methods used for registrations and requests
Methods == {MethodGet, MethodHead, MethodOptions, MethodPost, MethodConnect}

\* byte-wise order of the method names (Go's string <)
MethodRank ==
    [m \in {MethodConnect, MethodDelete, MethodGet, MethodHead, MethodOptions,
            MethodPatch, MethodPost, MethodPut} |->
        CASE m = MethodConnect -> 1
          [] m = MethodDelete -> 2
          [] m = MethodGet -> 3
          [] m = MethodHead -> 4
          [] m = MethodOptions -> 5
          [] m = MethodPatch -> 6
          [] m = MethodPost -> 7
          [] m = MethodPut -> 8]

StrLess(a, b) == MethodRank[a] < MethodRank[b]

\* route patterns: "/", "/a", "/a/", "/:n/*f"
PathRoot == <<"/">>
PathA == <<"/", "a">>
PathASlash == <<"/", "a", "/">>
PathNF == <<"/", ":", "n", "/", "*", "f">>
\* a pattern addRoute rejects: "/:" (a wildcard with an empty name)
PathBadWild == <<"/", ":">>
\* arguments Handle itself rejects: "" and "a"
PathEmpty == <<>>
PathNoSlash == <<"a">>

Patterns == {PathRoot, PathA, PathASlash, PathNF}

\* request paths: "", "/", "/a", "/a/", "/A", "*"
ReqStar == <<"*">>
ReqUpperA == <<"/", "A">>
ReqPaths == {PathEmpty, PathRoot, PathA, PathASlash, ReqUpperA, ReqStar}

-----------------------------------------------------------------------------
(* Strings                                                                 *)

\* unicode.ToLower on the alphabet in use
ToLower(c) == IF c = "A" THEN "a" ELSE c

\* first index >= i of s holding "/", or Len(s)+1
RECURSIVE SegEnd(_, _)
SegEnd(s, i) == IF i > Len(s) \/ s[i] = "/" THEN i ELSE SegEnd(s, i + 1)

\* strings.Join(list, sep), the result a sequence of tokens
RECURSIVE Join(_, _)
Join(list, sep) ==
    IF Len(list) = 0 THEN <<>>
    ELSE IF Len(list) = 1 THEN <<list[1]>>
    ELSE <<list[1], sep>> \o Join(Tail(list), sep)

\* countParams: the number of ':' and '*' in a path
countParams(path) == Cardinality({i \in 1..Len(path) : path[i] \in {":", "*"}})

\* CleanPath: "." and ".." elements and repeated slashes removed, a leading
\* slash ensured, a trailing slash kept.  w is the output built so far.
RECURSIVE CleanFrom(_, _, _, _)
CleanFrom(p, r, w, trailing) ==
    LET n == Len(p)
        dropLast(s) ==
            LET idx == {i \in 1..Len(s) : s[i] = "/"}
                cut == IF idx = {} THEN 1
                       ELSE CHOOSE i \in idx : \A j \in idx : j <= i
            IN IF Len(s) > 1 THEN SubSeq(s, 1, IF cut > 1 THEN cut - 1 ELSE 1) ELSE s
    IN IF r > n
       THEN IF trailing /\ Len(w) > 1 THEN Append(w, "/") ELSE w
       ELSE IF p[r] = "/" THEN CleanFrom(p, r + 1, w, trailing)
       ELSE IF p[r] = "." /\ r = n THEN CleanFrom(p, r + 1, w, TRUE)
       ELSE IF p[r] = "." /\ p[r + 1] = "/" THEN CleanFrom(p, r + 2, w, trailing)
       ELSE IF p[r] = "." /\ p[r + 1] = "." /\ (r + 1 = n \/ p[r + 2] = "/")
            THEN CleanFrom(p, r + 3, dropLast(w), trailing)
       ELSE LET e == SegEnd(p, r)
                w1 == IF Len(w) > 1 THEN Append(w, "/") ELSE w
            IN CleanFrom(p, e, w1 \o SubSeq(p, r, e - 1), trailing)

CleanPath(p) ==
    IF p = <<>> THEN <<"/">>
    ELSE CleanFrom(p, IF p[1] = "/" THEN 2 ELSE 1, <<"/">>,
                   Len(p) > 1 /\ p[Len(p)] = "/")

\* URL.String() of a URL holding only a path: "*" alone is kept, otherwise
\* every byte outside the path-safe set is percent-encoded
URLString(path) ==
    IF path = <<"*">> THEN path
    ELSE [i \in 1..Len(path) |-> IF path[i] = "*" THEN "%2A" ELSE path[i]]

-----------------------------------------------------------------------------
(* The tree of one method: the set of its routes                           *)

\* kind: the closure registered as the route's handle ("handle": the
\* caller's own, "sub": SubRouter's, "files": ServeFiles')
KindRoute(path, saved, kind) == [path |-> path, saved |-> saved, kind |-> kind]

Route(path, saved) == KindRoute(path, saved, "handle")

NoMatch == [ok |-> FALSE, ps |-> <<>>, out |-> <<>>]

\* Walk pattern pat from i against path from j.  ps collects the params and
\* out the path in the pattern's spelling; with fold, static bytes compare
\* case-insensitively.
RECURSIVE MatchFrom(_, _, _, _, _, _, _)
MatchFrom(pat, i, path, j, ps, out, fold) ==
    IF i > Len(pat)
    THEN IF j > Len(path) THEN [ok |-> TRUE, ps |-> ps, out |-> out] ELSE NoMatch
    ELSE IF pat[i] = ":"
    THEN LET pe == SegEnd(pat, i + 1)
             ve == SegEnd(path, j)
         IN IF ve = j THEN NoMatch
            ELSE MatchFrom(pat, pe, path, ve,
                     Append(ps, [Key |-> SubSeq(pat, i + 1, pe - 1),
                                 Value |-> SubSeq(path, j, ve - 1)]),
                     out \o SubSeq(path, j, ve - 1), fold)
    ELSE IF pat[i] = "/" /\ i < Len(pat) /\ pat[i + 1] = "*"
    THEN IF j <= Len(path) /\ path[j] = "/"
         THEN [ok |-> TRUE,
               ps |-> Append(ps, [Key |-> SubSeq(pat, i + 2, Len(pat)),
                                  Value |-> SubSeq(path, j, Len(path))]),
               out |-> out \o SubSeq(path, j, Len(path))]
         ELSE NoMatch
    ELSE IF j <= Len(path)
            /\ (IF fold THEN ToLower(path[j]) = ToLower(pat[i]) ELSE path[j] = pat[i])
    THEN MatchFrom(pat, i + 1, path, j + 1, ps, Append(out, pat[i]), fold)
    ELSE NoMatch

Match(pat, path) == MatchFrom(pat, 1, path, 1, <<>>, <<>>, FALSE)

MatchFold(pat, path) == MatchFrom(pat, 1, path, 1, <<>>, <<>>, TRUE)

Matching(root, path) == {r \in root : Match(r.path, path).ok}

\* the trailing-slash recommendation of a failed lookup; for "/" it is also
\* given when the root's prefix is longer than the path (every route goes
\* on with the same static byte)
TSR(root, path) ==
    \/ Matching(root, Append(path, "/")) # {}
    \/ /\ path = <<"/">>
       /\ root # {}
       /\ \E r \in root : \A q \in root :
              Len(q.path) >= 2 /\ q.path[2] = r.path[2] /\ q.path[2] \notin {":", "*"}
    \/ /\ Len(path) > 0
       /\ path[Len(path)] = "/"
       /\ Matching(root, SubSeq(path, 1, Len(path) - 1)) # {}

\* node.getValue(path, params): the route whose handle is returned, the
\* params (psNil: no buffer was taken) and the tsr hint
getValue(root, path) ==
    LET hits == Matching(root, path)
    IN IF hits # {}
       THEN LET r == CHOOSE h \in hits : TRUE
                ps == Match(r.path, path).ps
            IN [found |-> TRUE, route |-> r, ps |-> ps, psNil |-> ps = <<>>,
                tsr |-> FALSE]
       ELSE [found |-> FALSE, route |-> Route(<<>>, FALSE), ps |-> <<>>,
             psNil |-> TRUE, tsr |-> TSR(root, path)]

\* node.findCaseInsensitivePath(path, fixTrailingSlash)
findCaseInsensitivePath(root, path, fixTrailingSlash) ==
    LET fixes(p) == {MatchFold(r.path, p).out : r \in {x \in root : MatchFold(x.path, p).ok}}
        exact == fixes(path)
        added == fixes(Append(path, "/"))
        cut == IF Len(path) > 1 /\ path[Len(path)] = "/"
               THEN fixes(SubSeq(path, 1, Len(path) - 1)) ELSE {}
    IN IF exact # {} THEN [found |-> TRUE, path |-> CHOOSE f \in exact : TRUE]
       ELSE IF fixTrailingSlash /\ cut # {}
       THEN [found |-> TRUE, path |-> CHOOSE f \in cut : TRUE]
       ELSE IF fixTrailingSlash /\ added # {}
       THEN [found |-> TRUE, path |-> CHOOSE f \in added : TRUE]
       ELSE [found |-> FALSE, path |-> <<>>]

\* position i of pattern p lies in a wildcard segment (":name" or "*name")
InWild(p, i) ==
    \E k \in 1..i : p[k] \in {":", "*"} /\ \A l \in k..i : p[l] # "/"

\* the length of the longest common prefix of two patterns
RECURSIVE CommonLen(_, _, _)
CommonLen(p, q, k) ==
    IF k < Len(p) /\ k < Len(q) /\ p[k + 1] = q[k + 1]
    THEN CommonLen(p, q, k + 1) ELSE k

\* a wildcard is well formed: it follows a '/', has a name, and a catch-all
\* ends the path
WildOK(p) ==
    \A i \in 1..Len(p) :
        p[i] \in {":", "*"} =>
            /\ i > 1 /\ p[i - 1] = "/"
            /\ SegEnd(p, i + 1) > i + 1
            /\ \A l \in (i + 1)..(SegEnd(p, i + 1) - 1) : p[l] \notin {":", "*"}
            /\ (p[i] = "*" => SegEnd(p, i + 1) = Len(p) + 1)

\* two patterns that one tree cannot hold together
Conflict(p, q) ==
    LET k == CommonLen(p, q, 0)
        ext(s, t) == \* s is a proper prefix of t
            Len(s) = k /\ Len(t) > k
            /\ (t[k + 1] = "*" \/ (t[k + 1] # ":" /\ InWild(t, k + 1)))
    IN \/ p = q
       \/ ext(p, q)
       \/ ext(q, p)
       \/ /\ Len(p) > k /\ Len(q) > k
          /\ (InWild(p, k + 1) \/ InWild(q, k + 1))

\* node.addRoute(path, handle) panics
addRoutePanics(root, path) ==
    ~WildOK(path) \/ \E r \in root : Conflict(r.path, path)

-----------------------------------------------------------------------------
(* Router.allowed                                                          *)

\* the methods the loop over r.trees skips for a specific path
allowedSkips(method, reqMethod) == method = reqMethod \/ method = MethodOptions

\* the methods collected from trs (the map is ranged over in any order)
allowedCollect(trs, path, reqMethod) ==
    IF path = <<"*">>
    THEN {m \in DOMAIN trs : m # MethodOptions}
    ELSE {m \in DOMAIN trs :
            ~allowedSkips(m, reqMethod) /\ getValue(trs[m], path).found}

\* the insertion sort of the collected methods: ascending, as a sequence
RECURSIVE SortAllowed(_)
SortAllowed(S) ==
    IF S = {} THEN <<>>
    ELSE LET lo == CHOOSE m \in S : \A o \in S : o = m \/ StrLess(m, o)
         IN <<lo>> \o SortAllowed(S \ {lo})

allowedAppendNothing(S) == S

\* what is appended to a non-empty list before it is sorted
allowedAppend(S) == S \cup {MethodOptions}

allowed(trs, ga, path, reqMethod) ==
    IF path = <<"*">> /\ reqMethod # ""
    THEN ga
    ELSE LET S == allowedCollect(trs, path, reqMethod)
         IN IF S # {} THEN Join(SortAllowed(allowedAppend(S)), ", ") ELSE <<>>

globalAllowedKeptStale(trs, ga) == allowed(trs, ga, <<"*">>, MethodOptions)

\* the refresh of the cache in Handle: r.allowed("*", "")
globalAllowedRefresh(trs, ga) == allowed(trs, ga, <<"*">>, "")

-----------------------------------------------------------------------------
(* Observations                                                            *)

NoAcc ==
    [log |-> <<>>, calls |-> <<>>, code |-> 0, location |-> <<>>,
     allow |-> <<>>, recovered |-> <<>>, propagated |-> FALSE]

Idle ==
    [op |-> "none", method |-> "", path |-> <<>>, handleNil |-> FALSE,
     panicked |-> "", resp |-> NoAcc, result |-> <<>>]

Note(acc, ev) == [acc EXCEPT !.log = Append(@, ev)]

-----------------------------------------------------------------------------
(* Requests in flight                                                      *)

\* the requests that can be under way at once
MaxFlights == 2
\* the buffers paramsPool.New makes at most
MaxBuffers == 2

Flights == 1..MaxFlights

\* pc: the point the request is at; call: "ServeHTTP" or "Lookup"; buf: the
\* buffer it holds (0: none); need: the params the lookup stores in it
IdleFlight ==
    [pc |-> "idle", call |-> "", method |-> "", path |-> <<>>, buf |-> 0,
     need |-> 0]

-----------------------------------------------------------------------------
(* Router.New and the public fields                                        *)

Init ==
    /\ trees = <<>>
    /\ globalAllowed = <<>>
    /\ maxParams = 0
    /\ poolNew = FALSE
    /\ SaveMatchedRoutePath = FALSE
    /\ RedirectTrailingSlash = TRUE
    /\ RedirectFixedPath = TRUE
    /\ HandleMethodNotAllowed = TRUE
    /\ HandleOPTIONS = TRUE
    /\ GlobalOPTIONS = FALSE
    /\ NotFound = FALSE
    /\ MethodNotAllowed = FALSE
    /\ PanicHandler = FALSE
    /\ last = Idle
    /\ buffers = <<>>
    /\ pool = <<>>
    /\ flights = [q \in Flights |-> IdleFlight]

FieldNames ==
    {"RedirectTrailingSlash", "RedirectFixedPath", "HandleMethodNotAllowed",
     "HandleOPTIONS", "GlobalOPTIONS", "NotFound", "MethodNotAllowed",
     "PanicHandler"}

\* the program assigns one public field of the Router
SetField(f) ==
    /\ RedirectTrailingSlash' = (IF f = "RedirectTrailingSlash" THEN ~RedirectTrailingSlash ELSE RedirectTrailingSlash)
    /\ RedirectFixedPath' = (IF f = "RedirectFixedPath" THEN ~RedirectFixedPath ELSE RedirectFixedPath)
    /\ HandleMethodNotAllowed' = (IF f = "HandleMethodNotAllowed" THEN ~HandleMethodNotAllowed ELSE HandleMethodNotAllowed)
    /\ HandleOPTIONS' = (IF f = "HandleOPTIONS" THEN ~HandleOPTIONS ELSE HandleOPTIONS)
    /\ GlobalOPTIONS' = (IF f = "GlobalOPTIONS" THEN ~GlobalOPTIONS ELSE GlobalOPTIONS)
    /\ NotFound' = (IF f = "NotFound" THEN ~NotFound ELSE NotFound)
    /\ MethodNotAllowed' = (IF f = "MethodNotAllowed" THEN ~MethodNotAllowed ELSE MethodNotAllowed)
    /\ PanicHandler' = (IF f = "PanicHandler" THEN ~PanicHandler ELSE PanicHandler)
    /\ last' = Idle
    /\ UNCHANGED <<router, SaveMatchedRoutePath, serving>>

-----------------------------------------------------------------------------
(* Router.Handle                                                           *)

AllRoutes == UNION {trees[m] : m \in DOMAIN trees}

EmptyTrees == {m \in DOMAIN trees : trees[m] = {}}

\* the registrations so far that reached the tree
Reached ==
    Cardinality({mr \in (DOMAIN trees) \X AllRoutes : mr[2] \in trees[mr[1]]})
    + Cardinality(EmptyTrees)

HandleArgPanicNilUnchecked(method, path, handleNil) ==
    IF method = "" THEN "method must not be empty"
    ELSE IF Len(path) < 1 \/ path[1] # "/" THEN "path must begin with '/'"
    ELSE ""

\* the argument checks at the head of Handle; "" when they pass
HandleArgPanic(method, path, handleNil) ==
    IF method = "" THEN "method must not be empty"
    ELSE IF Len(path) < 1 \/ path[1] # "/" THEN "path must begin with '/'"
    ELSE IF handleNil THEN "handle must not be nil"
    ELSE ""

Max(a, b) == IF a > b THEN a ELSE b

\* the Router's own state, as one value
RouterState ==
    [trees |-> trees, globalAllowed |-> globalAllowed, maxParams |-> maxParams,
     poolNew |-> poolNew]

\* Handle on the router state R with SaveMatchedRoutePath = save; kind tells
\* which closure the handle is.  The result: the state left and the panic
HandleOn(R, save, method, path, handleNil, kind) ==
    LET bad == HandleArgPanic(method, path, handleNil)
        varsCount == IF save THEN 1 ELSE 0
        fresh == method \notin DOMAIN R.trees
        trees1 == IF fresh THEN R.trees @@ (method :> {}) ELSE R.trees
        ga1 == IF fresh THEN globalAllowedRefresh(trees1, R.globalAllowed)
               ELSE R.globalAllowed
        mp1 == Max(R.maxParams, countParams(path) + varsCount)
    IN IF bad # ""
       THEN [r |-> R, panicked |-> bad]
       ELSE IF addRoutePanics(trees1[method], path)
       THEN [r |-> [R EXCEPT !.trees = trees1, !.globalAllowed = ga1],
             panicked |-> "addRoute"]
       ELSE [r |-> [trees |-> [trees1 EXCEPT ![method] =
                                   @ \cup {KindRoute(path, save, kind)}],
                    globalAllowed |-> ga1,
                    maxParams |-> mp1,
                    poolNew |-> (R.poolNew \/ mp1 > 0)],
             panicked |-> ""]

\* the router takes the state R
Becomes(R) ==
    /\ trees' = R.trees
    /\ globalAllowed' = R.globalAllowed
    /\ maxParams' = R.maxParams
    /\ poolNew' = R.poolNew

Handle(method, path, handleNil) ==
    LET h == HandleOn(RouterState, SaveMatchedRoutePath, method, path, handleNil,
                      "handle")
    IN /\ Becomes(h.r)
       /\ last' = [Idle EXCEPT !.op = "Handle", !.method = method,
                               !.path = path, !.handleNil = handleNil,
                               !.panicked = h.panicked]
       /\ UNCHANGED <<SaveMatchedRoutePath, fields, serving>>

-----------------------------------------------------------------------------
(* Params, the request context, and the closures of SubRouter              *)

\* the name of the catch-all SubRouter and ServeFiles read: "filepath"
Filepath == <<"f", "i", "l", "e", "p", "a", "t", "h">>

\* strings.HasSuffix
HasSuffix(str, suffix) ==
    /\ Len(str) >= Len(suffix)
    /\ SubSeq(str, Len(str) - Len(suffix) + 1, Len(str)) = suffix

\* strings.IndexByte: the 0-based index of the first c in str, or -1
IndexByte(str, c) ==
    LET hits == {i \in 1..Len(str) : str[i] = c}
    IN IF hits = {} THEN -1
       ELSE (CHOOSE i \in hits : \A j \in hits : i <= j) - 1

\* Params.ByName: the value of the first Param with the key, or ""
ByName(ps, name) ==
    LET hits == {i \in 1..Len(ps) : ps[i].Key = name}
    IN IF hits = {} THEN <<>>
       ELSE ps[CHOOSE i \in hits : \A j \in hits : i <= j].Value

\* a request context: whether it holds Params under ParamsKey, and which
NoContext == [exists |-> FALSE, params |-> <<>>]

\* WithParams: the context with ps appended to the Params it holds
WithParams(parent, ps) ==
    IF parent.exists
    THEN [exists |-> TRUE, params |-> parent.params \o ps]
    ELSE [exists |-> TRUE, params |-> ps]

\* storeParams on a request seen as [path, ctx]
storeParams(p, req) ==
    IF Len(p) > 0 THEN [req EXCEPT !.ctx = WithParams(req.ctx, p)] ELSE req

\* the request SubRouter's closure hands to its handler
SubRouterClosure(req, ps) ==
    storeParams(ps, [req EXCEPT !.path = ByName(ps, Filepath)])

\* the request ServeFiles' closure hands to the file server
ServeFilesClosure(req, ps) == [req EXCEPT !.path = ByName(ps, Filepath)]

\* the routes of the Router given to SubRouter as its handler: "/:k",
\* registered with Router.Handler
InnerRoutes == {Route(<<"/", ":", "k">>, FALSE)}

NoRequest == [path |-> <<>>, ctx |-> NoContext, served |-> FALSE]

\* the request the handler of a route of inner is called with through
\* adapter, when the Router holding inner is given req; NoRequest when that
\* router finds no handle for the path

InnerRouter(inner, req) ==
    LET v == getValue(inner, req.path)
    IN IF v.found
       THEN [storeParams(v.ps, req) EXCEPT !.served = TRUE]
       ELSE NoRequest

-----------------------------------------------------------------------------
(* Router.serveHTTP                                                        *)

MatchedRoutePathParam == <<"$matchedRoutePath">>

\* the status of a redirect issued from the tree of method
RedirectCode(method) == IF method # MethodGet THEN 308 ELSE 301

RedirectEligibleAlways(method, path) == TRUE

\* a request serveHTTP may answer with a redirect
RedirectEligible(method, path) == method # MethodConnect /\ path # <<"/">>

FixedPathLookupKeepsSlashFix(root, path) ==
    findCaseInsensitivePath(root, CleanPath(path), TRUE)

\* the attempt to fix the request path
FixedPathLookup(root, path) ==
    findCaseInsensitivePath(root, CleanPath(path), RedirectTrailingSlash)

TrailingSlashTargetAlwaysAdds(path) == Append(path, "/")

\* the path a trailing-slash redirect sends the client to
TrailingSlashTarget(path) ==
    IF Len(path) > 1 /\ path[Len(path)] = "/"
    THEN SubSeq(path, 1, Len(path) - 1)
    ELSE Append(path, "/")

\* http.Redirect(w, req, req.URL.String(), code) after req.URL.Path = target
Redirect(acc, target, code) ==
    [Note(acc, "redirect") EXCEPT !.code = code, !.location = URLString(target)]

\* what serveHTTP returns once r.recv has recovered a panic: the zero value
\* of its unnamed bool result
RecoveredResult == FALSE

HandleParamsDropped(v) == <<>>

\* the params the handle found by getValue is called with: *ps, or nil
HandleParams(v) == v.ps

WrappedByCurrentFlag(route) == SaveMatchedRoutePath

\* the handle of the route is the closure saveMatchedRoutePath returned:
\* Handle wrapped it when the route was registered
Wrapped(route) == route.saved

SavedParamsPrepended(ps, psNil, path) ==
    <<[Key |-> MatchedRoutePathParam, Value |-> path]>> \o ps

\* the params the closure of saveMatchedRoutePath calls the user's handle
\* with: one Param in a buffer of its own when it was given nil, else the
\* Param appended to the params it was given
SavedParams(ps, psNil, path) ==
    IF psNil
    THEN <<[Key |-> MatchedRoutePathParam, Value |-> path]>>
    ELSE Append(ps, [Key |-> MatchedRoutePathParam, Value |-> path])

\* The call of the handle found for path in the tree of method, and of the
\* user's handle inside the saveMatchedRoutePath wrapper.  panics: the
\* handle's own behaviour on this request.
CallHandle(acc, method, path, v, panics) ==
    LET wrapGet == Wrapped(v.route) /\ v.psNil
        req == [path |-> path, ctx |-> NoContext, served |-> TRUE]
        ps == HandleParams(v)
        ups == IF Wrapped(v.route)
               THEN SavedParams(ps, v.psNil, v.route.path)
               ELSE ps
        sees == CASE v.route.kind = "sub" -> SubRouterClosure(req, ups)
                  [] v.route.kind = "files" -> ServeFilesClosure(req, ups)
                  [] OTHER -> req
        call == [method |-> method, path |-> v.route.path, saved |-> v.route.saved,
                 kind |-> v.route.kind,
                 ps |-> ps, psNil |-> v.psNil, ups |-> ups,
                 sees |-> sees,
                 innermost |-> IF v.route.kind = "sub"
                               THEN InnerRouter(InnerRoutes, sees)
                               ELSE NoRequest,
                 outcome |-> IF ~panics THEN "returned"
                             ELSE IF PanicHandler THEN "recovered" ELSE "propagated"]
        a1 == IF ~v.psNil \/ wrapGet THEN Note(acc, "getParams") ELSE acc
        a2 == [Note(a1, "handle") EXCEPT !.calls = Append(@, call)]
    IN IF ~panics
       THEN [ret |-> TRUE,
             acc |-> IF ~v.psNil \/ wrapGet THEN Note(a2, "putParams") ELSE a2]
       ELSE IF PanicHandler
       THEN [ret |-> RecoveredResult,
             acc |-> [Note(a2, "PanicHandler") EXCEPT
                        !.recovered = Append(@, [method |-> method, path |-> v.route.path])]]
       ELSE [ret |-> FALSE, acc |-> [a2 EXCEPT !.propagated = TRUE]]

serveHTTP(acc, method, path, pan) ==
    IF method \notin DOMAIN trees
    THEN [ret |-> FALSE, acc |-> acc]
    ELSE LET root == trees[method]
             v == getValue(root, path)
             code == RedirectCode(method)
         IN IF v.found
            THEN CallHandle(acc, method, path, v, method \in pan)
            ELSE IF RedirectEligible(method, path)
            THEN IF v.tsr /\ RedirectTrailingSlash
                 THEN [ret |-> TRUE, acc |-> Redirect(acc, TrailingSlashTarget(path), code)]
                 ELSE IF RedirectFixedPath
                 THEN LET f == FixedPathLookup(root, path)
                      IN IF f.found
                         THEN [ret |-> TRUE, acc |-> Redirect(acc, f.path, code)]
                         ELSE [ret |-> FALSE, acc |-> acc]
                 ELSE [ret |-> FALSE, acc |-> acc]
            ELSE [ret |-> FALSE, acc |-> acc]

-----------------------------------------------------------------------------
(* Router.ServeHTTP                                                        *)

\* a handler held in a field of the Router runs; it is not under r.recv
CallField(acc, name, panics) ==
    IF panics THEN [Note(acc, name) EXCEPT !.propagated = TRUE] ELSE Note(acc, name)

HeadFallbackNever(reqMethod) == FALSE

\* the request is retried in the GET tree
HeadFallback(reqMethod) == reqMethod = MethodHead

OptionsBranchFlagInverted(reqMethod) == reqMethod = MethodOptions /\ ~HandleOPTIONS

\* the automatic OPTIONS reply is the branch taken
OptionsBranch(reqMethod) == reqMethod = MethodOptions /\ HandleOPTIONS

SetAllow(acc, allow) == [Note(acc, "setAllow") EXCEPT !.allow = allow]

\* the reply to an OPTIONS request with a non-empty Allow value
OptionsReply(acc, panics) ==
    IF GlobalOPTIONS THEN CallField(acc, "GlobalOPTIONS", panics)
    ELSE Note(acc, "options200")

\* the reply to a request whose method is not allowed for the path
NotAllowedReply(acc, panics) ==
    IF MethodNotAllowed THEN CallField(acc, "MethodNotAllowed", panics)
    ELSE Note(acc, "405")

NotFoundReplyAlways404(acc, panics) == Note(acc, "404")

\* the fallback: the NotFound handler, or http.NotFound
NotFoundReply(acc, panics) ==
    IF NotFound THEN CallField(acc, "NotFound", panics) ELSE Note(acc, "404")

\* ServeHTTP from "path := req.URL.Path" on
Negotiate(acc, reqMethod, path, panics) ==
    IF OptionsBranch(reqMethod)
    THEN LET allow == allowed(trees, globalAllowed, path, MethodOptions)
         IN IF allow # <<>>
            THEN OptionsReply(SetAllow(acc, allow), panics)
            ELSE NotFoundReply(acc, panics)
    ELSE IF HandleMethodNotAllowed
    THEN LET allow == allowed(trees, globalAllowed, path, reqMethod)
         IN IF allow # <<>>
            THEN NotAllowedReply(SetAllow(acc, allow), panics)
            ELSE NotFoundReply(acc, panics)
    ELSE NotFoundReply(acc, panics)

\* the response to a request; pan: whose handlers panic on this request
\* (the handles of a method's tree, "field" for the Router's handler fields)
Response(reqMethod, path, pan) ==
    LET s1 == serveHTTP(NoAcc, reqMethod, path, pan)
    IN IF s1.ret \/ s1.acc.propagated THEN s1.acc
       ELSE LET s2 == IF HeadFallback(reqMethod)
                      THEN serveHTTP(s1.acc, MethodGet, path, pan)
                      ELSE [ret |-> FALSE, acc |-> s1.acc]
            IN IF s2.ret \/ s2.acc.propagated THEN s2.acc
               ELSE Negotiate(s2.acc, reqMethod, path, "field" \in pan)

PanicSets(reqMethod) ==
    SUBSET ({reqMethod, "field"} \cup
            (IF reqMethod = MethodHead THEN {MethodGet} ELSE {}))

ServeHTTP(reqMethod, path, pan) ==
    /\ last' = [Idle EXCEPT !.op = "ServeHTTP", !.method = reqMethod,
                            !.path = path, !.resp = Response(reqMethod, path, pan)]
    /\ UNCHANGED <<router, SaveMatchedRoutePath, fields, serving>>

-----------------------------------------------------------------------------
(* The router under registrations, field assignments and requests          *)

\* the fields that differ from what New() sets
Assigned ==
    Cardinality({f \in FieldNames :
        \/ f = "RedirectTrailingSlash" /\ ~RedirectTrailingSlash
        \/ f = "RedirectFixedPath" /\ ~RedirectFixedPath
        \/ f = "HandleMethodNotAllowed" /\ ~HandleMethodNotAllowed
        \/ f = "HandleOPTIONS" /\ ~HandleOPTIONS
        \/ f = "GlobalOPTIONS" /\ GlobalOPTIONS
        \/ f = "NotFound" /\ NotFound
        \/ f = "MethodNotAllowed" /\ MethodNotAllowed
        \/ f = "PanicHandler" /\ PanicHandler})

\* the program calls the router again only once the previous call is over
Ready == last.op = "none"

Register ==
    \E method \in Methods, path \in Patterns \cup {PathBadWild} :
        /\ Ready
        /\ Reached < MaxRoutes
        /\ Handle(method, path, FALSE)

\* calls of Handle with an argument it rejects: <<method, path, handle is nil>>
InvalidArgs ==
    {<<"", PathA, FALSE>>, <<MethodGet, PathEmpty, FALSE>>,
     <<MethodGet, PathNoSlash, FALSE>>, <<MethodGet, PathA, TRUE>>,
     <<"", PathNoSlash, TRUE>>}

RegisterInvalid ==
    \E a \in InvalidArgs :
        /\ Ready
        /\ Handle(a[1], a[2], a[3])

Configure ==
    \E f \in FieldNames :
        /\ Ready
        /\ SetField(f)
        /\ Assigned' <= MaxFields

Serve ==
    \E reqMethod \in Methods, path \in ReqPaths :
        \E pan \in PanicSets(reqMethod) :
            /\ Ready
            /\ ServeHTTP(reqMethod, path, pan)

\* the call is over: its observation is dropped
Return ==
    /\ ~Ready
    /\ last' = Idle
    /\ UNCHANGED <<router, SaveMatchedRoutePath, fields, serving>>

Next == Register \/ RegisterInvalid \/ Configure \/ Serve \/ Return

Spec == Init /\ [][Next]_vars

-----------------------------------------------------------------------------
(* Router.ListPaths                                                        *)

\* the bytes in use, in increasing order
Alphabet ==
    <<"*", "/", ":", "A", "a", "e", "f", "h", "i", "k", "l", "n", "p", "t">>

CharRank(c) == CHOOSE i \in 1..Len(Alphabet) : Alphabet[i] = c

\* Go's < on strings
RECURSIVE PathLess(_, _)
PathLess(p, q) ==
    IF q = <<>> THEN FALSE
    ELSE IF p = <<>> THEN TRUE
    ELSE IF p[1] = q[1] THEN PathLess(Tail(p), Tail(q))
    ELSE CharRank(p[1]) < CharRank(q[1])

RECURSIVE SortPaths(_)
SortPaths(S) ==
    IF S = {} THEN <<>>
    ELSE LET lo == CHOOSE x \in S : \A y \in S : y = x \/ PathLess(x, y)
         IN <<lo>> \o SortPaths(S \ {lo})

\* node.makePathList(nil, nil): the paths with a handle, sorted
makePathList(root) == SortPaths({r.path : r \in root})

ListPathsIgnoresMethod(method) == [m \in DOMAIN trees |-> makePathList(trees[m])]

\* the map ListPaths returns
ListPathsResult(method) ==
    IF method = ""
    THEN [m \in DOMAIN trees |-> makePathList(trees[m])]
    ELSE IF method \in DOMAIN trees
    THEN (method :> makePathList(trees[method]))
    ELSE <<>>

ListPaths(method) ==
    /\ last' = [Idle EXCEPT !.op = "ListPaths", !.method = method,
                            !.result = ListPathsResult(method)]
    /\ UNCHANGED <<router, SaveMatchedRoutePath, fields, serving>>

-----------------------------------------------------------------------------
(* HandleAll, SubRouter, ServeFiles                                        *)

AllMethods ==
    <<MethodHead, MethodGet, MethodPut, MethodPost, MethodDelete, MethodPatch,
      MethodOptions>>

\* the loop of HandleAll over methods, from the router state R; it ends at
\* the first Handle that panics
RECURSIVE HandleAllOn(_, _, _, _, _)
HandleAllOn(R, save, path, kind, methods) ==
    IF methods = <<>> THEN [r |-> R, panicked |-> ""]
    ELSE LET h == HandleOn(R, save, Head(methods), path, FALSE, kind)
         IN IF h.panicked # "" THEN h
            ELSE HandleAllOn(h.r, save, path, kind, Tail(methods))

\* the path SubRouter registers
SubRouterPath(path) ==
    IF HasSuffix(path, <<"/", "*">>) THEN path \o Filepath ELSE path

\* the checks of SubRouter; "" when they pass
SubRouterPanic(path) ==
    LET p1 == SubRouterPath(path)
    IN IF ~HasSuffix(path, <<"/", "*">>) /\ ~HasSuffix(path, <<"/", "*">> \o Filepath)
       THEN "path must end with /* or /*filepath"
       ELSE IF IndexByte(SubSeq(p1, 1, Len(p1) - 9), "*") > 0
       THEN "path must contain only one *"
       ELSE ""

SubRouter(path, methods) ==
    LET bad == SubRouterPanic(path)
        h == HandleAllOn(RouterState, SaveMatchedRoutePath, SubRouterPath(path),
                         "sub", IF Len(methods) = 0 THEN AllMethods ELSE methods)
    IN /\ IF bad # "" THEN UNCHANGED router ELSE Becomes(h.r)
       /\ last' = [Idle EXCEPT !.op = "SubRouter", !.path = path,
                               !.panicked = IF bad # "" THEN bad ELSE h.panicked]
       /\ UNCHANGED <<SaveMatchedRoutePath, fields, serving>>

\* the check of ServeFiles; "" when it passes
ServeFilesPanic(path) ==
    IF Len(path) < 10 \/ SubSeq(path, Len(path) - 9, Len(path)) # <<"/", "*">> \o Filepath
    THEN "path must end with /*filepath"
    ELSE ""

ServeFiles(path) ==
    LET bad == ServeFilesPanic(path)
        h == HandleOn(RouterState, SaveMatchedRoutePath, MethodGet, path, FALSE,
                      "files")
    IN /\ IF bad # "" THEN UNCHANGED router ELSE Becomes(h.r)
       /\ last' = [Idle EXCEPT !.op = "ServeFiles", !.method = MethodGet,
                               !.path = path,
                               !.panicked = IF bad # "" THEN bad ELSE h.panicked]
       /\ UNCHANGED <<SaveMatchedRoutePath, fields, serving>>

-----------------------------------------------------------------------------
(* StripLeadingSegments                                                    *)

\* The objects of a call: requests and URLs by identity.  reqs gives the URL
\* object of each request object, urls the fields of each URL object.
OrigReq == 1
OrigURL == 1

Heap(path, raw) ==
    [reqs |-> (OrigReq :> OrigURL),
     urls |-> (OrigURL :> [Path |-> path, RawPath |-> raw])]

\* the loop of doStripLeadingSegments over p
RECURSIVE StripPath(_, _)
StripPath(p, unwantedSegments) ==
    IF unwantedSegments > 0 /\ Len(p) > 0
    THEN LET slash == IndexByte(Tail(p), "/")
         IN IF slash > 0
            THEN StripPath(SubSeq(p, slash + 2, Len(p)), unwantedSegments - 1)
            ELSE StripPath(<<>>, unwantedSegments - 1)
    ELSE p

StripURLShared(h, r) == h.reqs[r]

\* r2.URL = new(url.URL): a URL object no request has yet
StripURL(h, r) == (CHOOSE u \in DOMAIN h.urls : \A o \in DOMAIN h.urls : o <= u) + 1

\* doStripLeadingSegments: the heap it leaves and the request it returns
doStripLeadingSegments(h, r, unwantedSegments) ==
    LET r2 == (CHOOSE x \in DOMAIN h.reqs : \A o \in DOMAIN h.reqs : o <= x) + 1
        u2 == StripURL(h, r)
        p == StripPath(h.urls[h.reqs[r]].Path, unwantedSegments)
    IN [heap |-> [reqs |-> [x \in DOMAIN h.reqs \cup {r2} |->
                               IF x = r2 THEN u2 ELSE h.reqs[x]],
                  urls |-> [u \in DOMAIN h.urls \cup {u2} |->
                               IF u = u2 THEN [Path |-> p, RawPath |-> <<>>]
                               ELSE h.urls[u]]],
        req |-> r2]

\* what the handler given to StripLeadingSegments is called with when the
\* handler it returned serves request r
StripLeadingSegmentsResult(unwantedSegments, h, r) ==
    IF unwantedSegments = 0
    THEN [heap |-> h, req |-> r]
    ELSE doStripLeadingSegments(h, r, unwantedSegments)

StripLeadingSegments(unwantedSegments, path, raw) ==
    /\ last' = [Idle EXCEPT
                  !.op = "StripLeadingSegments",
                  !.path = path,
                  !.result = [n |-> unwantedSegments, raw |-> raw,
                              got |-> StripLeadingSegmentsResult(
                                          unwantedSegments, Heap(path, raw), OrigReq)]]
    /\ UNCHANGED <<router, SaveMatchedRoutePath, fields, serving>>

-----------------------------------------------------------------------------
(* The router with mounted handlers, its listing, and the path stripper    *)

\* the most segments a stripper is asked to drop
MaxStrip == 3

\* paths given to SubRouter: "/*", "/:n/*filepath", "/:filepath/*filepath",
\* "/*a/*", "/a"
SubRouterPaths ==
    {<<"/", "*">>,
     <<"/", ":", "n", "/", "*">> \o Filepath,
     <<"/", ":">> \o Filepath \o <<"/", "*">> \o Filepath,
     <<"/", "*", "a", "/", "*">>,
     PathA}

SubRouterMethods == {<<>>, <<MethodGet>>}

\* paths given to ServeFiles: "/*filepath", "/a/*filepath", "/*", "/a/*", "/a"
ServeFilesPaths ==
    {<<"/", "*">> \o Filepath, <<"/", "a", "/", "*">> \o Filepath,
     <<"/", "*">>, <<"/", "a", "/", "*">>, PathA}

\* request paths for mounted handlers: "/a", "/a/", "/a/a"
MountedReqPaths == {PathA, PathASlash, <<"/", "a", "/", "a">>}

\* paths given to a stripper: "", "/", "/a", "/a/", "//a", "/a/n/f", "/a//f"
StripPaths ==
    {<<>>, <<"/">>, PathA, PathASlash, <<"/", "/", "a">>,
     <<"/", "a", "/", "n", "/", "f">>, <<"/", "a", "/", "/", "f">>}

\* URL.RawPath of the original request: "" or an encoded form
RawPaths == {<<>>, <<"/", "a", "%2f", "n">>}

Mount ==
    \E path \in SubRouterPaths, methods \in SubRouterMethods :
        /\ Ready
        /\ Reached < MaxRoutes
        /\ SubRouter(path, methods)

Files ==
    \E path \in ServeFilesPaths :
        /\ Ready
        /\ Reached < MaxRoutes
        /\ ServeFiles(path)

List ==
    \E method \in {"", MethodGet, MethodPost} :
        /\ Ready
        /\ ListPaths(method)

ServeMounted ==
    \E reqMethod \in {MethodGet, MethodPost}, path \in MountedReqPaths :
        /\ Ready
        /\ ServeHTTP(reqMethod, path, {})

Strip ==
    \E n \in 0..MaxStrip, path \in StripPaths, raw \in RawPaths :
        /\ Ready
        /\ StripLeadingSegments(n, path, raw)

AdapterNext == Register \/ Mount \/ Files \/ List \/ ServeMounted \/ Strip \/ Return

AdapterSpec == Init /\ [][AdapterNext]_vars

-----------------------------------------------------------------------------
(* The router while SaveMatchedRoutePath is switched on and off between    *)
(* registrations and requests                                              *)

PathN == <<"/", ":", "n">>

SavedMethods == {MethodGet, MethodPost}

SavedPatterns == {PathA, PathN, PathNF}

\* request paths: "/a", "/a/", "/a/a"
SavedReqPaths == {PathA, PathASlash, <<"/", "a", "/", "a">>}

\* the program assigns the field SaveMatchedRoutePath
SetSaveMatchedRoutePath(b) ==
    /\ SaveMatchedRoutePath' = b
    /\ last' = Idle
    /\ UNCHANGED <<router, fields, serving>>

Toggle ==
    /\ Ready
    /\ SetSaveMatchedRoutePath(~SaveMatchedRoutePath)

RegisterSaved ==
    \E method \in SavedMethods, path \in SavedPatterns :
        /\ Ready
        /\ Reached < MaxRoutes
        /\ Handle(method, path, FALSE)

ServeSaved ==
    \E reqMethod \in SavedMethods, path \in SavedReqPaths :
        /\ Ready
        /\ ServeHTTP(reqMethod, path, {})

SavedNext == Toggle \/ RegisterSaved \/ ServeSaved \/ Return

SavedSpec == Init /\ [][SavedNext]_vars

-----------------------------------------------------------------------------
(* The params pool under concurrent requests.  A request is served in      *)
(* steps: the lookup, which draws a buffer when it stores a param; the     *)
(* call of the handle, where the closure of saveMatchedRoutePath draws one *)
(* when it was given no params; the handler's return or panic.  The        *)
(* requests here are not HEAD requests, so serveHTTP runs once for each,   *)
(* and what ServeHTTP does after it takes no buffer.                       *)

\* a lookup that finds no handle has stored a param before it failed: some
\* route's first wildcard is a param and the path reaches it
MissCaptures(root, path) ==
    \E r \in root : \E i \in 1..Len(r.path) :
        /\ r.path[i] = ":"
        /\ \A k \in 1..(i - 1) : r.path[k] \notin {":", "*"}
        /\ Len(path) >= i
        /\ SubSeq(path, 1, i - 1) = SubSeq(r.path, 1, i - 1)

\* the buffers paramsPool.Get() can return: one that is in the pool, or the
\* one New makes
Gettable ==
    {b \in DOMAIN pool : pool[b] > 0}
    \cup (IF poolNew /\ Len(buffers) < MaxBuffers THEN {Len(buffers) + 1} ELSE {})

PoolAfterGetShared(b) == IF b \in DOMAIN pool THEN pool ELSE pool @@ (b :> 0)

\* the pool once Get has returned b
PoolAfterGet(b) ==
    IF b \in DOMAIN pool THEN [pool EXCEPT ![b] = @ - 1] ELSE pool @@ (b :> 0)

\* New: make(Params, 0, r.maxParams)
BuffersAfterGet(b) ==
    IF b \in DOMAIN buffers THEN buffers ELSE buffers @@ (b :> maxParams)

\* r.paramsPool.Put(ps)
PoolAfterPut(b) == [pool EXCEPT ![b] = @ + 1]

\* request q draws buffer b and goes on at pc, with need params to store
getParams(q, b, pc, need) ==
    /\ buffers' = BuffersAfterGet(b)
    /\ pool' = PoolAfterGet(b)
    /\ flights' = [flights EXCEPT ![q].buf = b, ![q].pc = pc, ![q].need = need]

\* request q puts back the buffer it holds, if any, and goes on at pc
putParams(q, pc) ==
    /\ pool' = IF flights[q].buf # 0 THEN PoolAfterPut(flights[q].buf) ELSE pool
    /\ flights' = [flights EXCEPT ![q].buf = 0, ![q].pc = pc]
    /\ UNCHANGED buffers

Goes(q, pc) ==
    /\ flights' = [flights EXCEPT ![q].pc = pc]
    /\ UNCHANGED <<buffers, pool>>

FlightValue(q) == getValue(trees[flights[q].method], flights[q].path)

\* request paths: "/a", "/a/"
PoolReqPaths == {PathA, PathASlash}

\* a request arrives: ServeHTTP, or Lookup called by the program.  The
\* requests are GET requests, and they take the flights in order
Receive(q) ==
    \E call \in {"ServeHTTP", "Lookup"}, path \in PoolReqPaths :
        /\ flights[q].pc = "idle"
        /\ \A o \in 1..(q - 1) : flights[o].pc # "idle"
        /\ flights' = [flights EXCEPT ![q] =
                          [IdleFlight EXCEPT !.pc = "getValue", !.call = call,
                                             !.method = MethodGet,
                                             !.path = path]]
        /\ UNCHANGED <<router, SaveMatchedRoutePath, fields, last, buffers, pool>>

\* root.getValue(path, r.getParams)
GetValue(q) ==
    /\ flights[q].pc = "getValue"
    /\ IF flights[q].method \notin DOMAIN trees
       THEN Goes(q, "return")
       ELSE LET v == FlightValue(q)
                pc == IF v.found THEN "found" ELSE "missed"
            IN IF v.found /\ ~v.psNil
               THEN \E b \in Gettable : getParams(q, b, pc, Len(v.ps))
               ELSE IF ~v.found /\ MissCaptures(trees[flights[q].method], flights[q].path)
               THEN \E b \in Gettable : getParams(q, b, pc, 1)
               ELSE Goes(q, pc)
    /\ UNCHANGED <<router, SaveMatchedRoutePath, fields, last>>

\* serveHTTP calls the handle; the closure of saveMatchedRoutePath draws a
\* buffer when it is given nil
EnterHandle(q) ==
    /\ flights[q].pc = "found"
    /\ flights[q].call = "ServeHTTP"
    /\ IF Wrapped(FlightValue(q).route) /\ flights[q].buf = 0
       THEN \E b \in Gettable : getParams(q, b, "handler", 1)
       ELSE Goes(q, "handler")
    /\ UNCHANGED <<router, SaveMatchedRoutePath, fields, last>>

\* the user's handler returns: the buffer is put back by the closure or by
\* serveHTTP, and serveHTTP returns true
HandlerReturns(q) ==
    /\ flights[q].pc = "handler"
    /\ putParams(q, "return")
    /\ UNCHANGED <<router, SaveMatchedRoutePath, fields, last>>

\* the user's handler panics: the calls of putParams are skipped
HandlerPanics(q) ==
    /\ flights[q].pc = "handler"
    /\ Goes(q, "return")
    /\ UNCHANGED <<router, SaveMatchedRoutePath, fields, last>>

\* serveHTTP found no handle: it redirects or returns false
Missed(q) ==
    /\ flights[q].pc = "missed"
    /\ flights[q].call = "ServeHTTP"
    /\ Goes(q, "return")
    /\ UNCHANGED <<router, SaveMatchedRoutePath, fields, last>>

\* Lookup returns: the params go to the caller with the handle, or back to
\* the pool without one
LookupReturns(q) ==
    /\ flights[q].call = "Lookup"
    /\ \/ flights[q].pc = "found" /\ Goes(q, "return")
       \/ flights[q].pc = "missed" /\ putParams(q, "return")
    /\ UNCHANGED <<router, SaveMatchedRoutePath, fields, last>>

\* the caller is done with the request
Forget(q) ==
    /\ flights[q].pc = "return"
    /\ flights' = [flights EXCEPT ![q] = IdleFlight]
    /\ UNCHANGED <<router, SaveMatchedRoutePath, fields, last, buffers, pool>>

\* no request is between its lookup and its return: the trees are not safe
\* for registration during lookups
Quiet == \A q \in Flights : flights[q].pc \in {"idle", "return"}

RegisterQuiet ==
    \E path \in SavedPatterns :
        /\ Quiet
        /\ Ready
        /\ Reached < MaxRoutes
        /\ Handle(MethodGet, path, FALSE)

ToggleQuiet == Quiet /\ Toggle

Step ==
    \E q \in Flights :
        \/ Receive(q)
        \/ GetValue(q)
        \/ EnterHandle(q)
        \/ HandlerReturns(q)
        \/ HandlerPanics(q)
        \/ Missed(q)
        \/ LookupReturns(q)
        \/ Forget(q)

PoolNext == RegisterQuiet \/ ToggleQuiet \/ Return \/ Step

PoolSpec == Init /\ [][PoolNext]_vars

-----------------------------------------------------------------------------
(* Vocabulary of the properties                                            *)

Served == last.op = "ServeHTTP"

Resp == last.resp

\* the events of the response, as a set
Events == {Resp.log[i] : i \in 1..Len(Resp.log)}

\* the routes of method m whose pattern matches path
RoutesFor(m, path) == IF m \in DOMAIN trees THEN Matching(trees[m], path) ELSE {}

\* the methods, other than m and OPTIONS, with a handler matching path
OtherMethods(m, path) ==
    {o \in (DOMAIN trees) \ {m, MethodOptions} : RoutesFor(o, path) # {}}

\* no handle ran to its end or let a panic escape, and no redirect was sent:
\* ServeHTTP went on to method negotiation
Unserved ==
    /\ "redirect" \notin Events
    /\ \A i \in 1..Len(Resp.calls) : Resp.calls[i].outcome = "recovered"

\* the last two events of the response are the Allow header and then ev
EndsWithAllowThen(ev) ==
    /\ Len(Resp.log) >= 2
    /\ Resp.log[Len(Resp.log) - 1] = "setAllow"
    /\ Resp.log[Len(Resp.log)] = ev
    /\ Cardinality({i \in 1..Len(Resp.log) : Resp.log[i] = "setAllow"}) = 1

\* a is the methods of S in ascending order, joined with ", "
IsAllowOf(a, S) ==
    /\ Len(a) = 2 * Cardinality(S) - 1
    /\ \A i \in 1..Len(a) : IF i % 2 = 1 THEN a[i] \in S ELSE a[i] = ", "
    /\ \A i, j \in 1..Len(a) :
          (i % 2 = 1 /\ j % 2 = 1 /\ i < j) => StrLess(a[i], a[j])

\* the names of the wildcards of a pattern, in the order they appear
RECURSIVE WildNames(_, _)
WildNames(pat, i) ==
    IF i > Len(pat) THEN <<>>
    ELSE IF pat[i] \in {":", "*"}
    THEN <<SubSeq(pat, i + 1, SegEnd(pat, i) - 1)>> \o WildNames(pat, SegEnd(pat, i))
    ELSE WildNames(pat, i + 1)

\* what a response may end a request with
Terminal ==
    {"handle", "redirect", "options200", "GlobalOPTIONS", "405",
     "MethodNotAllowed", "404", "NotFound"}

TerminalCount == Cardinality({i \in 1..Len(Resp.log) : Resp.log[i] \in Terminal})

-----------------------------------------------------------------------------
(* C1: when the tree of the request's method holds a handler matching the  *)
(* path, ServeHTTP invokes that handler first, with the params captured    *)
(* for the path in the order of the route's wildcards; if the handler does *)
(* not panic nothing else happens: no second handler, no redirect, no 405  *)
(* and no 404.                                                             *)
C1_MatchedHandlerServed ==
    (Served /\ RoutesFor(last.method, last.path) # {}) =>
        /\ Cardinality(RoutesFor(last.method, last.path)) = 1
        /\ Len(Resp.calls) >= 1
        /\ LET c == Resp.calls[1]
               r == CHOOSE x \in RoutesFor(last.method, last.path) : TRUE
           IN /\ c.method = last.method
              /\ c.path = r.path
              /\ [i \in 1..Len(c.ps) |-> c.ps[i].Key] = WildNames(r.path, 1)
              /\ c.ps = Match(r.path, last.path).ps
              /\ c.outcome = "returned" =>
                    /\ Len(Resp.calls) = 1
                    /\ TerminalCount = 1
                    /\ Events \subseteq {"getParams", "handle", "putParams"}

\* a handler with two wildcards was served: POST /a/ by /:n/*f
C1_Witness ==
    /\ Served
    /\ last.path = PathASlash
    /\ Len(Resp.calls) = 1
    /\ Resp.calls[1].path = PathNF
    /\ Resp.calls[1].outcome = "returned"
    /\ Resp.calls[1].ps = <<[Key |-> <<"n">>, Value |-> <<"a">>],
                            [Key |-> <<"f">>, Value |-> <<"/">>]>>

C3_RedirectStatus ==
    (Served /\ "redirect" \in Events) =>
        Resp.code = (IF last.method = MethodGet THEN 301 ELSE 308)

(* C4: one call of ServeHTTP performs exactly one terminal action: a route *)
(* handler, a redirect, the automatic OPTIONS reply or GlobalOPTIONS, 405  *)
(* or MethodNotAllowed, 404 or NotFound.                                   *)
C4_SingleShot == Served => TerminalCount = 1

(* C5: when a matched route handler panics, PanicHandler, if set, is       *)
(* invoked exactly once, with the value of that panic, and the panic does  *)
(* not leave ServeHTTP; if PanicHandler is not set the panic leaves        *)
(* ServeHTTP.                                                              *)
C5_PanicHandlerOnce ==
    (Served /\ \E i \in 1..Len(Resp.calls) : Resp.calls[i].outcome # "returned") =>
        IF PanicHandler
        THEN /\ Len(Resp.recovered) = 1
             /\ \A i \in 1..Len(Resp.calls) : Resp.calls[i].outcome # "propagated"
             /\ \E i \in 1..Len(Resp.calls) :
                    /\ Resp.calls[i].outcome = "recovered"
                    /\ Resp.recovered[1] = [method |-> Resp.calls[i].method,
                                            path |-> Resp.calls[i].path]
        ELSE Resp.propagated

(* C6: with HandleMethodNotAllowed, a request of a method other than       *)
(* OPTIONS that is neither served nor redirected, while other methods      *)
(* (OPTIONS aside) have a handler matching its path, is answered by the    *)
(* MethodNotAllowed handler if set and with 405 otherwise, after the Allow *)
(* header was set to those other methods plus OPTIONS, in ascending order, *)
(* joined with ", ".                                                       *)
C6_MethodNotAllowed ==
    (/\ Served
     /\ last.method # MethodOptions
     /\ HandleMethodNotAllowed
     /\ Unserved
     /\ OtherMethods(last.method, last.path) # {}) =>
        /\ EndsWithAllowThen(IF MethodNotAllowed THEN "MethodNotAllowed" ELSE "405")
        /\ IsAllowOf(Resp.allow,
                     OtherMethods(last.method, last.path) \cup {MethodOptions})
        /\ Events \cap {"404", "NotFound", "options200", "GlobalOPTIONS"} = {}

\* a 405 was written with two other methods allowed, OPTIONS sorted between
C6_Witness ==
    /\ Served
    /\ last.method = MethodGet
    /\ "405" \in Events
    /\ Resp.allow = <<MethodHead, ", ", MethodOptions, ", ", MethodPost>>

C8_AutomaticOptions ==
    (/\ Served
     /\ last.method = MethodOptions
     /\ HandleOPTIONS
     /\ Unserved
     /\ OtherMethods(MethodOptions, last.path) # {}) =>
        /\ EndsWithAllowThen(IF GlobalOPTIONS THEN "GlobalOPTIONS" ELSE "options200")
        /\ Resp.allow # <<>>
        /\ Events \cap {"MethodNotAllowed", "NotFound", "405", "404"} = {}

\* GlobalOPTIONS answered an OPTIONS request for a path with a route
C8_Witness ==
    /\ Served
    /\ last.method = MethodOptions
    /\ last.path = PathA
    /\ Resp.log = <<"setAllow", "GlobalOPTIONS">>
    /\ ~Resp.propagated

\* the methods under which a route is registered
RegisteredMethods == {m \in DOMAIN trees : trees[m] # {}}

C10_CustomOptionsFirst ==
    /\ (Served /\ last.method = MethodOptions
        /\ RoutesFor(MethodOptions, last.path) # {}) =>
            /\ Len(Resp.calls) >= 1
            /\ Resp.calls[1].method = MethodOptions
            /\ "GlobalOPTIONS" \notin Events
    /\ (Served /\ "GlobalOPTIONS" \in Events) =>
            /\ HandleOPTIONS
            /\ last.method = MethodOptions
            /\ RoutesFor(MethodOptions, last.path) = {}

-----------------------------------------------------------------------------
(* Vocabulary of the redirect properties                                   *)

\* the tree of the request's method exists and holds no handler for the path
TreeMisses ==
    /\ Served
    /\ last.method \in DOMAIN trees
    /\ RoutesFor(last.method, last.path) = {}

\* a path with or without one more trailing slash matches in the tree
SlashHint(m, path) ==
    \/ RoutesFor(m, Append(path, "/")) # {}
    \/ /\ Len(path) > 0 /\ path[Len(path)] = "/"
       /\ RoutesFor(m, SubSeq(path, 1, Len(path) - 1)) # {}

\* the response is one redirect, to target
RedirectedTo(target) ==
    /\ Resp.log = <<"redirect">>
    /\ Resp.code \in {301, 308}
    /\ Resp.location = URLString(target)

Fold(path) == [i \in 1..Len(path) |-> ToLower(path[i])]

\* the paths with a handler in the tree of m that equal path but for the
\* case of letters and, with slashFix, for one trailing slash
FixTargets(m, path, slashFix) ==
    LET root == trees[m]
        cands == {r.path : r \in root} \cup
                 {path, Append(path, "/")} \cup
                 (IF Len(path) > 0 THEN {SubSeq(path, 1, Len(path) - 1)} ELSE {})
    IN {t \in cands :
          /\ Matching(root, t) # {}
          /\ \/ Fold(t) = Fold(path)
             \/ slashFix /\ Fold(t) = Fold(Append(path, "/"))
             \/ slashFix /\ Fold(Append(t, "/")) = Fold(path)}

\* the trees ServeHTTP may look the request up in
TriedTrees ==
    ({last.method} \cup (IF last.method = MethodHead THEN {MethodGet} ELSE {}))
        \cap DOMAIN trees

(* C11 as claimed: with RedirectTrailingSlash, a request whose method's    *)
(* tree has no handler for P but one for P with a trailing slash added or  *)
(* removed is redirected to P without its final slash if P ends in one     *)
(* (and is longer than 1), and to P plus a slash otherwise.                *)
C11_Original ==
    (/\ TreeMisses
     /\ RedirectTrailingSlash
     /\ SlashHint(last.method, last.path)) =>
        RedirectedTo(IF Len(last.path) > 1 /\ last.path[Len(last.path)] = "/"
                     THEN SubSeq(last.path, 1, Len(last.path) - 1)
                     ELSE Append(last.path, "/"))

(* C11, amended: the same for every method but CONNECT and every path but  *)
(* "/"; and with RedirectTrailingSlash disabled a redirect is issued only  *)
(* by the fixed-path lookup (in the method's tree, or in the GET tree for  *)
(* a HEAD request), to a path that equals the cleaned P but for the case   *)
(* of its letters.                                                         *)
C11_TrailingSlashRedirect ==
    (/\ TreeMisses
     /\ last.method # MethodConnect
     /\ last.path # <<"/">>
     /\ SlashHint(last.method, last.path)) =>
        IF RedirectTrailingSlash
        THEN RedirectedTo(IF Len(last.path) > 1 /\ last.path[Len(last.path)] = "/"
                          THEN SubSeq(last.path, 1, Len(last.path) - 1)
                          ELSE Append(last.path, "/"))
        ELSE "redirect" \in Events =>
                /\ RedirectFixedPath
                /\ \E m \in TriedTrees :
                       \E t \in FixTargets(m, CleanPath(last.path), FALSE) :
                           RedirectedTo(t)

\* POST /a/ was redirected to /a with 308
C11_Witness ==
    /\ Served
    /\ last.method = MethodPost
    /\ last.path = PathASlash
    /\ ~RedirectFixedPath
    /\ Resp.log = <<"redirect">>
    /\ Resp.code = 308
    /\ Resp.location = PathA

(* C12: with RedirectFixedPath, for a method other than CONNECT and a path *)
(* other than "/", when the method's tree has no handler for P and no      *)
(* trailing-slash redirect is due, the request is redirected to a path the *)
(* tree has a handler for and that equals CleanPath(P) but for the case of *)
(* its letters (and for one trailing slash iff RedirectTrailingSlash); if  *)
(* there is no such path no redirect comes from this tree.  A due          *)
(* trailing-slash redirect comes first.                                    *)
C12_FixedPathRedirect ==
    (/\ TreeMisses
     /\ RedirectFixedPath
     /\ last.method # MethodConnect
     /\ last.path # <<"/">>) =>
        IF RedirectTrailingSlash /\ TSR(trees[last.method], last.path)
        THEN RedirectedTo(TrailingSlashTarget(last.path))
        ELSE LET T == FixTargets(last.method, CleanPath(last.path),
                                 RedirectTrailingSlash)
             IN IF T # {}
                THEN \E t \in T : RedirectedTo(t)
                ELSE last.method # MethodHead => "redirect" \notin Events

\* GET /A was redirected to /a
C12_Witness ==
    /\ Served
    /\ last.method = MethodGet
    /\ last.path = ReqUpperA
    /\ ~RedirectTrailingSlash
    /\ Resp.log = <<"redirect">>
    /\ Resp.code = 301
    /\ Resp.location = PathA

(* C13: a request whose method is CONNECT, or whose path is "/", is never  *)
(* answered with a redirect, whatever the flags and the routes.            *)
C13_NeverRedirected ==
    (Served /\ (last.method = MethodConnect \/ last.path = <<"/">>)) =>
        /\ "redirect" \notin Events
        /\ Resp.code \notin {301, 308}
        /\ Resp.location = <<>>

\* CONNECT /a went unredirected although the CONNECT tree holds /a/
C13_Witness ==
    /\ Served
    /\ last.method = MethodConnect
    /\ last.path = PathA
    /\ RedirectTrailingSlash
    /\ RoutesFor(MethodConnect, PathASlash) # {}
    /\ Resp.log = <<"404">>

(* C14 as claimed: a request for "/" is never redirected to the empty path *)
(* and a request for the empty path is never redirected to "/".            *)
C14_Original ==
    Served =>
        /\ ~(last.path = <<"/">> /\ "redirect" \in Events /\ Resp.location = <<>>)
        /\ ~(last.path = <<>> /\ "redirect" \in Events /\ Resp.location = <<"/">>)

(* C14, amended: a request for "/" is never redirected; a request for the  *)
(* empty path is redirected to "/" whenever its method is not CONNECT, the *)
(* method's tree has a handler for "/" and RedirectTrailingSlash or        *)
(* RedirectFixedPath is set, and is redirected nowhere else.               *)
C14_RootAndEmptyPath ==
    Served =>
        /\ last.path = <<"/">> => ("redirect" \notin Events /\ Resp.location = <<>>)
        /\ (/\ last.path = <<>>
            /\ last.method # MethodConnect
            /\ RoutesFor(last.method, <<"/">>) # {}
            /\ RedirectTrailingSlash \/ RedirectFixedPath) =>
                /\ Resp.log = <<"redirect">>
                /\ Resp.location = <<"/">>
        /\ (last.path = <<>> /\ "redirect" \in Events) => Resp.location = <<"/">>

\* GET "" was redirected to "/"
C14_Witness ==
    /\ Served
    /\ last.method = MethodGet
    /\ last.path = <<>>
    /\ RoutesFor(MethodGet, <<"/">>) # {}
    /\ Resp.log = <<"redirect">>
    /\ Resp.code = 301
    /\ Resp.location = <<"/">>

-----------------------------------------------------------------------------
(* C15: Handle panics when the method is empty, when the path is empty or  *)
(* does not begin with '/', and when the handle is nil; the trees,         *)
(* maxParams, globalAllowed and the pool's constructor are then what they  *)
(* were before the call.                                                   *)
C15_InvalidInputPanics ==
    [][(/\ last'.op = "Handle"
        /\ \/ last'.method = ""
           \/ Len(last'.path) < 1
           \/ last'.path[1] # "/"
           \/ last'.handleNil) =>
            /\ last'.panicked \in {"method must not be empty",
                                   "path must begin with '/'",
                                   "handle must not be nil"}
            /\ trees' = trees
            /\ maxParams' = maxParams
            /\ globalAllowed' = globalAllowed
            /\ poolNew' = poolNew]_vars

\* Handle panicked on a nil handle, with routes registered before
C15_Witness ==
    /\ last.op = "Handle"
    /\ last.method = MethodGet
    /\ last.path = PathA
    /\ last.handleNil
    /\ last.panicked = "handle must not be nil"
    /\ AllRoutes # {}
    /\ MethodGet \notin DOMAIN trees

-----------------------------------------------------------------------------
AllMethodsSet == {AllMethods[i] : i \in 1..Len(AllMethods)}

\* list is the paths of the routes of tree m, each once, in increasing order
ListsTree(list, m) ==
    /\ {list[i] : i \in 1..Len(list)} = {r.path : r \in trees[m]}
    /\ \A i \in 1..(Len(list) - 1) : PathLess(list[i], list[i + 1])

(* C16: when every registration that reached a tree succeeded,             *)
(* ListPaths("") has one entry per method with a route, holding exactly    *)
(* the paths registered under the method in increasing order; ListPaths(m) *)
(* has m's entry alone, and is empty when no route is registered under m.  *)
C16_ListPaths ==
    (last.op = "ListPaths" /\ EmptyTrees = {}) =>
        /\ DOMAIN last.result =
              (IF last.method = "" THEN RegisteredMethods
               ELSE RegisteredMethods \cap {last.method})
        /\ \A m \in DOMAIN last.result : ListsTree(last.result[m], m)

\* all paths were listed after SubRouter registered one path under the
\* seven methods and Handle a second one under GET
C16_Witness ==
    /\ last.op = "ListPaths"
    /\ last.method = ""
    /\ DOMAIN last.result = AllMethodsSet
    /\ Len(last.result[MethodGet]) = 2
    /\ Len(last.result[MethodPost]) = 1

-----------------------------------------------------------------------------
\* the calls of handles registered by SubRouter that returned
MountedCalls ==
    {i \in 1..Len(Resp.calls) :
        Resp.calls[i].kind = "sub" /\ Resp.calls[i].outcome = "returned"}

\* the value the route's catch-all captured: the last of the captured params
CatchAllValue(call) == call.ps[Len(call.ps)].Value

(* C17: when the router dispatches to a handler registered with SubRouter, *)
(* that handler sees the URL path replaced by the value of the catch-all   *)
(* parameter, and when it is itself a router with a route for that path,   *)
(* its handler finds in the request context the outer router's captured    *)
(* params, in wildcard order and ending with filepath, followed by the     *)
(* inner router's captured params.                                         *)
C17_NestedParams ==
    Served =>
        \A i \in MountedCalls :
            LET call == Resp.calls[i]
                hits == Matching(InnerRoutes, CatchAllValue(call))
            IN /\ [k \in 1..Len(call.ps) |-> call.ps[k].Key] = WildNames(call.path, 1)
               /\ call.ps[Len(call.ps)].Key = Filepath
               /\ call.sees.path = CatchAllValue(call)
               /\ call.sees.ctx.params = call.ps
               /\ \A r \in hits :
                     /\ call.innermost.served
                     /\ call.innermost.path = CatchAllValue(call)
                     /\ call.innermost.ctx.params =
                           call.ps \o Match(r.path, CatchAllValue(call)).ps

-----------------------------------------------------------------------------
(* C18: ServeFiles accepts a path that ends with "/*filepath" and a path   *)
(* that ends with "/*", and panics for every other path.                   *)
C18_ServeFilesPaths ==
    last.op = "ServeFiles" =>
        IF \/ HasSuffix(last.path, <<"/", "*">> \o Filepath)
           \/ HasSuffix(last.path, <<"/", "*">>)
        THEN last.panicked # "path must end with /*filepath"
        ELSE last.panicked # ""

-----------------------------------------------------------------------------
\* the request and the URL the wrapped handler was called with
StripSeen == last.result.got.heap.urls[last.result.got.heap.reqs[last.result.got.req]]

\* path without its first n "/"-delimited segments: what follows from the
\* (n+1)-th "/" on, and the empty path when there is none
DropSegments(path, n) ==
    LET slashes == {i \in 1..Len(path) : path[i] = "/"}
    IN IF Cardinality(slashes) <= n THEN <<>>
       ELSE LET k == CHOOSE i \in slashes :
                        Cardinality({j \in slashes : j < i}) = n
            IN SubSeq(path, k, Len(path))

(* C19: for n >= 1 and a request path that begins with "/", the handler    *)
(* wrapped by StripLeadingSegments(n, h) sees the path without its first n *)
(* segments, the empty path when there are n or fewer, and an empty        *)
(* RawPath.                                                                *)
C19_StripSegments ==
    (/\ last.op = "StripLeadingSegments"
     /\ last.result.n >= 1
     /\ Len(last.path) > 0
     /\ last.path[1] = "/")
    => /\ StripSeen.Path = DropSegments(last.path, last.result.n)
       /\ StripSeen.RawPath = <<>>

-----------------------------------------------------------------------------
\* the caller's URL after the call
StripOriginal == last.result.got.heap.urls[OrigURL]

(* C20: StripLeadingSegments leaves the caller's request alone: for n >= 1 *)
(* the handler gets another request object with another URL object, and    *)
(* the caller's request still has its URL, its Path and its RawPath; for   *)
(* n = 0 the handler gets the caller's request itself.                     *)
C20_RequestUnaltered ==
    last.op = "StripLeadingSegments" =>
        /\ last.result.got.heap.reqs[OrigReq] = OrigURL
        /\ StripOriginal = [Path |-> last.path, RawPath |-> last.result.raw]
        /\ last.result.n >= 1 =>
              /\ last.result.got.req # OrigReq
              /\ last.result.got.heap.reqs[last.result.got.req] # OrigURL
        /\ last.result.n = 0 =>
              /\ last.result.got.req = OrigReq
              /\ DOMAIN last.result.got.heap.reqs = {OrigReq}
              /\ DOMAIN last.result.got.heap.urls = {OrigURL}

\* segments were dropped from a request that had a path and a raw path
C20_Witness ==
    /\ last.op = "StripLeadingSegments"
    /\ last.result.n >= 1
    /\ last.result.raw # <<>>
    /\ last.path # <<>>
    /\ StripSeen.Path # last.path
    /\ StripOriginal.Path = last.path

-----------------------------------------------------------------------------
\* the params the route's wildcards capture from the request path
Captured(call) == Match(call.path, last.path).ps

MatchedParam(call) == [Key |-> MatchedRoutePathParam, Value |-> call.path]

(* C21 as claimed: the handler of a route registered while                 *)
(* SaveMatchedRoutePath is set receives the matched-route-path param as    *)
(* the first element of its params, followed by the captured params.       *)
C21_Original ==
    Served =>
        \A i \in 1..Len(Resp.calls) :
            Resp.calls[i].saved =>
                Resp.calls[i].ups =
                    <<MatchedParam(Resp.calls[i])>> \o Captured(Resp.calls[i])

(* C21, amended: the handler of a route registered while                   *)
(* SaveMatchedRoutePath is set receives the captured wildcard params in    *)
(* declaration order followed by the matched-route-path param, whose value *)
(* is the route's pattern: the param is the last element.                  *)
C21_MatchedRoutePathLast ==
    Served =>
        \A i \in 1..Len(Resp.calls) :
            Resp.calls[i].saved =>
                /\ Resp.calls[i].ups =
                      Captured(Resp.calls[i]) \o <<MatchedParam(Resp.calls[i])>>
                /\ [k \in 1..Len(Captured(Resp.calls[i])) |->
                       Captured(Resp.calls[i])[k].Key]
                      = WildNames(Resp.calls[i].path, 1)
                /\ ByName(Resp.calls[i].ups, MatchedRoutePathParam)
                      = Resp.calls[i].path

\* a saved route with two wildcards was served
C21_Witness ==
    /\ Served
    /\ Len(Resp.calls) = 1
    /\ Resp.calls[1].saved
    /\ Resp.calls[1].path = PathNF
    /\ Len(Resp.calls[1].ups) = 3
    /\ Resp.calls[1].ups[3].Key = MatchedRoutePathParam

-----------------------------------------------------------------------------
\* the params hold a matched-route-path param
HasMatchedParam(ps) == \E i \in 1..Len(ps) : ps[i].Key = MatchedRoutePathParam

\* the routes a step adds to the trees, as <<method, route>>
AddedRoutes ==
    {mr \in (DOMAIN trees') \X (UNION {trees'[m] : m \in DOMAIN trees'}) :
        /\ mr[2] \in trees'[mr[1]]
        /\ (mr[1] \in DOMAIN trees => mr[2] \notin trees[mr[1]])}

(* C22: a route is marked as saving the matched route path exactly when    *)
(* SaveMatchedRoutePath is set while Handle registers it; assigning the    *)
(* flag changes no registered route; and the handler of a route receives   *)
(* the matched-route-path param if and only if the route is so marked,     *)
(* whatever the flag is when the request is served.                        *)
C22_FlagAtRegistration ==
    [][/\ \A mr \in AddedRoutes : mr[2].saved = SaveMatchedRoutePath
       /\ \A m \in DOMAIN trees : m \in DOMAIN trees' /\ trees[m] \subseteq trees'[m]
       /\ SaveMatchedRoutePath' # SaveMatchedRoutePath => trees' = trees
       /\ last'.op = "ServeHTTP" =>
             \A i \in 1..Len(last'.resp.calls) :
                 \E r \in trees'[last'.resp.calls[i].method] :
                     /\ r.path = last'.resp.calls[i].path
                     /\ HasMatchedParam(last'.resp.calls[i].ups) <=> r.saved
      ]_vars

\* a route registered with the flag set is served after the flag was
\* cleared, and its handler still receives the param
C22_Witness ==
    /\ Served
    /\ ~SaveMatchedRoutePath
    /\ Len(Resp.calls) = 1
    /\ Resp.calls[1].saved
    /\ HasMatchedParam(Resp.calls[1].ups)

-----------------------------------------------------------------------------
\* the requests that hold buffer b
Holders(b) == {q \in Flights : flights[q].buf = b}

InFlight(q) == flights[q].pc \in {"found", "missed", "handler"}

(* C23: a params buffer is held by at most one request at a time, it is    *)
(* never in the pool twice, and it is not in the pool while a request      *)
(* holds it: two concurrent handlers never have the same buffer.           *)
C23_BufferNotShared ==
    \A b \in DOMAIN buffers :
        /\ Cardinality(Holders(b)) <= 1
        /\ pool[b] <= 1
        /\ pool[b] >= 1 => Holders(b) = {}

\* two handlers run at once, each with a buffer of its own
C23_Witness ==
    /\ flights[1].pc = "handler"
    /\ flights[2].pc = "handler"
    /\ flights[1].buf # 0
    /\ flights[2].buf # 0
    /\ flights[1].buf # flights[2].buf

-----------------------------------------------------------------------------
(* C24: when ServeHTTP has returned for a request, the request holds no    *)
(* params buffer any more: every buffer it drew is back in the pool.       *)
C24_BufferReturned ==
    \A q \in Flights :
        (flights[q].pc = "return" /\ flights[q].call = "ServeHTTP") =>
            flights[q].buf = 0

-----------------------------------------------------------------------------
(* C28: a buffer the pool hands to a request has the capacity maxParams,   *)
(* and so room for the params the request's lookup stores in it.           *)
C28_BufferCapacity ==
    \A q \in Flights :
        (InFlight(q) /\ flights[q].buf # 0) =>
            /\ buffers[flights[q].buf] = maxParams
            /\ buffers[flights[q].buf] >= flights[q].need

-----------------------------------------------------------------------------
(* C25: when PanicHandler is set, no panic leaves ServeHTTP: a panic of    *)
(* the NotFound, MethodNotAllowed or GlobalOPTIONS handler is recovered    *)
(* like a panic of a route's handler.                                      *)
C25_WholeRequestRecovered ==
    (Served /\ PanicHandler) => ~Resp.propagated

-----------------------------------------------------------------------------
\* the tree of the request's method has no handler for the path but yields
\* a trailing-slash or fixed-path redirect for it
OwnTreeRedirects ==
    /\ TreeMisses
    /\ last.method # MethodConnect
    /\ last.path # <<"/">>
    /\ \/ RedirectTrailingSlash /\ SlashHint(last.method, last.path)
       \/ /\ RedirectFixedPath
          /\ FixTargets(last.method, CleanPath(last.path), RedirectTrailingSlash) # {}

\* the events of method negotiation, and of the fallback
NegotiationEvents == {"setAllow", "options200", "GlobalOPTIONS", "405", "MethodNotAllowed"}

NotFoundEvents == {"404", "NotFound"}

(* C26: a redirect the request method's own tree yields is sent even when  *)
(* another method has a handler for the path; the Allow header with 405 or *)
(* the automatic OPTIONS reply is produced only when no route handler was  *)
(* invoked and no redirect sent; 404 or NotFound only when, besides, no    *)
(* method negotiation replied.                                             *)
C26_DispatchOrder ==
    Served =>
        /\ OwnTreeRedirects => Resp.log = <<"redirect">>
        /\ Events \cap NegotiationEvents # {} =>
              "handle" \notin Events /\ "redirect" \notin Events
        /\ Events \cap NotFoundEvents # {} =>
              /\ "handle" \notin Events /\ "redirect" \notin Events
              /\ Events \cap NegotiationEvents = {}

-----------------------------------------------------------------------------
\* the methods other than OPTIONS that have a tree
TreeMethods == (DOMAIN trees) \ {MethodOptions}

(* C27: the cached globalAllowed is what allowed("*", "") computes from    *)
(* the trees: the methods that have a tree, other than OPTIONS, and        *)
(* OPTIONS, sorted and joined with ", ", or the empty string when no       *)
(* method other than OPTIONS has a tree.                                   *)
C27_CacheConsistent ==
    /\ globalAllowed = allowed(trees, globalAllowed, <<"*">>, "")
    /\ IF TreeMethods = {} THEN globalAllowed = <<>>
       ELSE IsAllowOf(globalAllowed, TreeMethods \cup {MethodOptions})

\* Handle has just registered a route of a second method, beside OPTIONS
C27_Witness ==
    /\ last.op = "Handle"
    /\ last.panicked = ""
    /\ MethodOptions \in DOMAIN trees
    /\ Cardinality(TreeMethods) = 1
    /\ Len(globalAllowed) = 3

-----------------------------------------------------------------------------
(* C29: a call of Handle that fails in the route insertion leaves the      *)
(* router as it was: the methods that have a tree, globalAllowed,          *)
(* maxParams and the result of ListPaths.                                  *)
C29_FailedRegistration ==
    [][(last'.op = "Handle" /\ last'.panicked = "addRoute") =>
          /\ DOMAIN trees' = DOMAIN trees
          /\ globalAllowed' = globalAllowed
          /\ maxParams' = maxParams
          /\ ListPathsResult("")' = ListPathsResult("")
      ]_vars

-----------------------------------------------------------------------------
\* the methods the Allow header of the response lists
AllowMethods == {Resp.allow[i] : i \in {k \in 1..Len(Resp.allow) : k % 2 = 1}}

\* a request of method m for path, with handlers that return, has a route
\* handler invoked
WouldServe(m, path) ==
    LET log == Response(m, path, {}).log
    IN \E i \in 1..Len(log) : log[i] = "handle"

(* C30: in a 405 or automatic OPTIONS response for a path, a method other  *)
(* than OPTIONS is listed in the Allow header if and only if a request of  *)
(* that method for the path would have a route handler invoked; so HEAD is *)
(* listed whenever a GET route serves the path.                            *)
C30_AllowAgreesWithDispatch ==
    (Served /\ "setAllow" \in Events /\ last.path # <<"*">>) =>
        \A m \in Methods \ {MethodOptions} :
            m \in AllowMethods <=> WouldServe(m, last.path)

====
